---- MODULE Spec2Model ----
(***************************************************************************)
(* HealthAgent conversational memory: the SQLite store behind             *)
(* HealthAgentMemoryManager (Utils/MemoryManager.py), EnhancedChatManager *)
(* (Utils/ChatAgent.py) and the reset endpoint of Main.py.                *)
(*                                                                         *)
(* db is the committed content of the database.  Every method opens its   *)
(* own sqlite3 connection; Python's sqlite3 begins a transaction before   *)
(* the first INSERT/UPDATE/DELETE of a connection, and that statement     *)
(* takes SQLite's single write lock (writer), kept until commit, rollback *)
(* or close.  A SELECT issued before the first write statement runs       *)
(* outside the transaction.  A thread that finds the lock held either     *)
(* waits or gives up after the busy timeout ("database is locked").       *)
(* Flask serves each request in its own thread.                           *)
(***************************************************************************)
EXTENDS Integers, Sequences, FiniteSets, TLC

\* ---------------------------------------------------------------- bounds
\* The epoch second runs 0..MaxClock.
MaxClock == 1
\* At most MaxExchanges exchanges are ever saved (conversations.id is
\* AUTOINCREMENT and takes two values per exchange).
MaxExchanges == 2
\* updated_plans.id is AUTOINCREMENT: at most MaxPlanId rows are ever inserted.
MaxPlanId == 2
\* agent_history.id: at most MaxBaseId base plans are ever generated.
MaxBaseId == 1
\* At most MaxOverlap requests arrive while another request is being served.
MaxOverlap == 1

\* The detector is applied to contexts of at most MaxContext recent messages.
MaxContext == 5
\* At most MaxLongExchanges exchanges are added to a conversation that begins
\* with as many turns as the summary threshold.
MaxLongExchanges == 2
\* At most MaxCoverageExchanges exchanges are added to such a conversation when
\* it is served by one thread.
MaxCoverageExchanges == 7

\* ------------------------------------------------------ program constants
\* is_substantial = len(ai_response) > 800
SubstantialLength == 800
\* recent_messages[-4:]
RecentWindow == 4
\* if not message or len(message) > 2000
MaxMessageLength == 2000
\* get_buffer_window_memory(user_id, agent_type, window_size=10)
WindowSize == 10
\* if message_count > 20: create the summary
SummaryThreshold == 20
\* for msg_type, content in messages[:-10]: the summary leaves out the last 10
SummaryTail == 10

\* --------------------------------------------------------------- domains
Threads == {"t1", "t2"}
Users == {1}
Roles == {"FitnessTrainer"}
Pairs == Users \X Roles
\* a second user, whose requests are served next to those of the first
OtherUsers == {2}
AllPairs == (Users \cup OtherUsers) \X Roles
\* (human message, assistant response, contains_plan_update) of an exchange
Exchanges == { <<"h1", "a1", FALSE>>, <<"h2", "a2", TRUE>> }
Limits == {1, 2}
None == "None"

\* valid_agents
ValidAgents == { "HealthSummary", "FitnessTrainer", "Nutritionist", "HealthAdvisor" }
\* the agentType of a chat request
RequestRoles == Roles \cup { "Unknown" }

\* What the texts of the model are to the code that inspects them (see the
\* detector): "h1" is a message of the greatest accepted length without an
\* update keyword, "h2" a message with an update keyword, "long" a message one
\* character too long, "a1" a short answer, "a2" a structured plan of more than
\* 800 characters, "" the empty text.
TextOf(c) ==
    CASE c = "h1"   -> [ upd |-> FALSE, plan |-> FALSE, len |-> MaxMessageLength, struct |-> FALSE ]
      [] c = "h2"   -> [ upd |-> TRUE,  plan |-> FALSE, len |-> 40,   struct |-> FALSE ]
      [] c = "long" -> [ upd |-> FALSE, plan |-> FALSE, len |-> MaxMessageLength + 1, struct |-> FALSE ]
      [] c = "a1"   -> [ upd |-> FALSE, plan |-> FALSE, len |-> 120,  struct |-> FALSE ]
      [] c = "a2"   -> [ upd |-> FALSE, plan |-> TRUE,  len |-> SubstantialLength + 1, struct |-> TRUE ]
      [] OTHER      -> [ upd |-> FALSE, plan |-> FALSE, len |-> 0,    struct |-> FALSE ]

\* What a user message is to _extract_context_references: pkw, it contains one
\* of plan_keywords; ref, it contains one of reference_keywords.  "h2" asks to
\* change this plan: it holds a keyword of each kind; "h1" holds neither.
KeywordsOf(c) ==
    IF c = "h2" THEN [ pkw |-> TRUE, ref |-> TRUE ]
    ELSE [ pkw |-> FALSE, ref |-> FALSE ]

\* A text as it arrives: body, surrounded by pad characters of white space.
\* str.strip() removes the white space.
Strip(raw) == raw.body

\* the message of a chat request
RawMessages ==
    { [ body |-> "h1", pad |-> 0 ], [ body |-> "h2", pad |-> 1 ],
      [ body |-> "", pad |-> 0 ], [ body |-> "", pad |-> 2 ],
      [ body |-> "long", pad |-> 0 ] }

\* What self.model.invoke gives: an exception (a failure or the timeout), a
\* response with empty content, or a response with content.
LlmOutcomes ==
    { [ kind |-> "error", body |-> "", pad |-> 0 ],
      [ kind |-> "content", body |-> "", pad |-> 0 ],
      [ kind |-> "content", body |-> "", pad |-> 1 ],
      [ kind |-> "content", body |-> "a1", pad |-> 1 ],
      [ kind |-> "content", body |-> "a2", pad |-> 0 ] }
\* the model was not called
NoOutcome == [ kind |-> "none", body |-> "", pad |-> 0 ]

\* What self.llm.invoke(summary_prompt) gives: an exception, or a summary text.
SummaryOutcomes ==
    { [ kind |-> "error", body |-> "", pad |-> 0 ],
      [ kind |-> "content", body |-> "s1", pad |-> 1 ] }

\* f"{agent_type}_{user_id}_{int(datetime.now().timestamp())}"
NewSessionId(u, r, now) == [kind |-> "session", role |-> r, user |-> u, epoch |-> now]
\* f"fallback_{agent_type}_{user_id}"
FallbackSessionId(u, r) == [kind |-> "fallback", role |-> r, user |-> u, epoch |-> 0]
NoSid == [kind |-> "none", role |-> None, user |-> 0, epoch |-> 0]

\* The empty database created by init_db.
EmptyDb ==
    [ sessions   |-> {},   \* conversation_sessions
      turns      |-> {},   \* conversations
      plans      |-> {},   \* updated_plans
      base       |-> {},   \* agent_history
      summaries  |-> {},   \* memory_summaries
      refs       |-> {},   \* context_references
      nextTurnId |-> 1,
      nextPlanId |-> 1,
      nextBaseId |-> 1,
      nextSummaryId |-> 1 ]

\* ------------------------------------------------------- small utilities
SetMax(S) == CHOOSE x \in S : \A y \in S : y <= x

Last(s) == s[Len(s)]

\* rows of S as a sequence in increasing (message_order, id)
RECURSIVE SortedTurns(_)
SortedTurns(S) ==
    IF S = {} THEN << >>
    ELSE LET m == CHOOSE x \in S : \A y \in S :
                      \/ x.ord < y.ord
                      \/ (x.ord = y.ord /\ x.id <= y.id)
         IN  << m >> \o SortedTurns(S \ {m})

LastN(s, n) == IF Len(s) <= n THEN s ELSE SubSeq(s, Len(s) - n + 1, Len(s))

\* ------------------------------------------------- conversation_sessions
\* SELECT session_id ... WHERE user_id = ? AND agent_type = ? AND status = 'active'
\* ORDER BY last_activity DESC LIMIT 1: the rows that query may return (rows with
\* the same last_activity come in an order SQLite does not fix).
ActiveCandidates(d, u, r) ==
    LET act == { s \in d.sessions : s.user = u /\ s.role = r /\ s.status = "active" }
    IN  { s.sid : s \in { x \in act : \A y \in act : y.last <= x.last } }

SessionIdTaken(d, sid) == \E s \in d.sessions : s.sid = sid

\* UPDATE conversation_sessions SET last_activity = CURRENT_TIMESTAMP WHERE session_id = ?
TouchSession(d, sid, now) ==
    [d EXCEPT !.sessions =
        { IF s.sid = sid THEN [s EXCEPT !.last = now] ELSE s : s \in d.sessions }]

\* INSERT INTO conversation_sessions (user_id, agent_type, session_id, session_name);
\* status, message_count and last_activity take the column defaults.
InsertSession(d, u, r, sid, now) ==
    [d EXCEPT !.sessions = @ \cup
        { [sid |-> sid, user |-> u, role |-> r, status |-> "active",
           count |-> 0, last |-> now] }]

\* The write half of get_session_id, given what its SELECT found: refresh the
\* session found, or insert a new one.  session_id is UNIQUE, so the insert of an
\* identifier that exists raises, and the except branch answers with the
\* fallback identifier, for which no row is written.
GetSessionWrite(d, u, r, found, now) ==
    IF found # NoSid
    THEN [db |-> TouchSession(d, found, now), sid |-> found]
    ELSE LET sid == NewSessionId(u, r, now)
         IN  IF SessionIdTaken(d, sid)
             THEN [db |-> d, sid |-> FallbackSessionId(u, r)]
             ELSE [db |-> InsertSession(d, u, r, sid, now), sid |-> sid]

\* get_session_id run without interruption.
GetSessionIdSeq(d, u, r, now) ==
    LET c == ActiveCandidates(d, u, r)
    IN  GetSessionWrite(d, u, r, IF c = {} THEN NoSid ELSE CHOOSE s \in c : TRUE, now)

\* --------------------------------------------------------- conversations
SessionTurns(d, sid) == { t \in d.turns : t.sid = sid }

\* Fault injection for C5: the same SELECT without its '+ 1'.
NextOrderFromZero(d, sid) ==
    IF SessionTurns(d, sid) = {} THEN 0
    ELSE SetMax({ t.ord : t \in SessionTurns(d, sid) })

\* SELECT COALESCE(MAX(message_order), 0) + 1 FROM conversations WHERE session_id = ?
NextOrder(d, sid) ==
    IF SessionTurns(d, sid) = {} THEN 1
    ELSE SetMax({ t.ord : t \in SessionTurns(d, sid) }) + 1

\* Fault injection for C36: the transaction without its UPDATE of message_count.
AddMessageTxnWithoutCount(d, sid, u, r, h, a, f, next, now) ==
    [d EXCEPT
       !.turns = @ \cup
          { [id |-> d.nextTurnId, sid |-> sid, user |-> u, role |-> r,
             type |-> "human", content |-> h, ord |-> next, upd |-> FALSE],
            [id |-> d.nextTurnId + 1, sid |-> sid, user |-> u, role |-> r,
             type |-> "assistant", content |-> a, ord |-> next + 1, upd |-> f] },
       !.nextTurnId = @ + 2,
       !.sessions = { IF s.sid = sid THEN [s EXCEPT !.last = now] ELSE s
                      : s \in d.sessions }]

\* The transaction of add_message: the human row, the assistant row, and the
\* session statistics, committed together.
AddMessageTxn(d, sid, u, r, h, a, f, next, now) ==
    [d EXCEPT
       !.turns = @ \cup
          { [id |-> d.nextTurnId, sid |-> sid, user |-> u, role |-> r,
             type |-> "human", content |-> h, ord |-> next, upd |-> FALSE],
            [id |-> d.nextTurnId + 1, sid |-> sid, user |-> u, role |-> r,
             type |-> "assistant", content |-> a, ord |-> next + 1, upd |-> f] },
       !.nextTurnId = @ + 2,
       !.sessions =
          { IF s.sid = sid THEN [s EXCEPT !.count = @ + 2, !.last = now] ELSE s
            : s \in d.sessions }]

\* The transaction of clear_session: the session becomes 'cleared', its turns
\* and its summaries are deleted.
ClearSessionTxn(d, sid) ==
    [d EXCEPT
       !.sessions = { IF s.sid = sid THEN [s EXCEPT !.status = "cleared"] ELSE s
                      : s \in d.sessions },
       !.turns = { t \in @ : t.sid # sid },
       !.summaries = { m \in @ : m.sid # sid }]

\* -------------------------------------------------------- memory_summaries
\* SELECT summary_content FROM memory_summaries WHERE session_id = ? AND
\* summary_type = 'session_summary' AND is_active = TRUE ORDER BY created_at DESC
\* LIMIT 1: the rows that query may return.
ActiveSummaries(d, sid) ==
    LET act == { m \in d.summaries : m.sid = sid /\ m.active }
    IN  { m \in act : \A o \in act : o.at <= m.at }

\* Fault injection for C26: '>=' in place of '>'.
SessionAtThreshold(d, sid) == Cardinality({ t \in d.turns : t.sid = sid }) >= SummaryThreshold

\* SELECT COUNT(*) FROM conversations WHERE session_id = ?; message_count > 20
SessionIsLong(d, sid) == Cardinality({ t \in d.turns : t.sid = sid }) > SummaryThreshold

\* SELECT message_type, content FROM conversations WHERE session_id = ? ORDER BY
\* message_order, and messages[:-10]: the ids of the turns that the summary
\* prompt holds, all but the last SummaryTail of the session.
SummarizedTurns(d, sid) ==
    LET rows == SortedTurns(SessionTurns(d, sid))
    IN  { rows[i].id : i \in 1 .. (Len(rows) - SummaryTail) }

\* INSERT INTO memory_summaries (session_id, user_id, agent_type, summary_type,
\* summary_content); is_active and created_at take the column defaults.  The
\* content is a summary of the turns covers.
InsertSummary(d, sid, u, r, content, covers, now) ==
    [d EXCEPT
       !.summaries = @ \cup { [id |-> d.nextSummaryId, sid |-> sid, user |-> u,
                               role |-> r, content |-> content, active |-> TRUE,
                               covers |-> covers, at |-> now] },
       !.nextSummaryId = @ + 1]

\* Fault injection for C28: the failure of the summarization call answered with
\* a text that is stored.
SummarizerAnswerStoringFailure(out) ==
    [ store |-> TRUE, text |-> IF out.kind = "error" THEN "error" ELSE Strip(out) ]

\* response = self.llm.invoke(summary_prompt); summary = response.content.strip():
\* an exception is caught, nothing is stored and "" is returned.
SummarizerAnswer(out) ==
    IF out.kind = "error" THEN [ store |-> FALSE, text |-> "" ]
    ELSE [ store |-> TRUE, text |-> Strip(out) ]

\* A conversation of SummaryThreshold turns in one active session, as
\* SummaryThreshold / 2 calls of add_message within one second leave it.
LongSessionDb(u, r) ==
    LET sid == NewSessionId(u, r, 0)
    IN  [ EmptyDb EXCEPT
            !.sessions = { [sid |-> sid, user |-> u, role |-> r, status |-> "active",
                            count |-> SummaryThreshold, last |-> 0] },
            !.turns = { [id |-> i, sid |-> sid, user |-> u, role |-> r,
                         type |-> IF i % 2 = 1 THEN "human" ELSE "assistant",
                         content |-> IF i % 2 = 1 THEN "h1" ELSE "a1",
                         ord |-> i, upd |-> FALSE] : i \in 1 .. SummaryThreshold },
            !.nextTurnId = SummaryThreshold + 1 ]

\* What get_conversation_history builds from the rows of a session: the last
\* 2*limit rows by message_order, oldest first, folded into pairs.
RECURSIVE PairUp(_, _)
PairUp(rows, cur) ==
    IF rows = << >> THEN << >>
    ELSE LET row == Head(rows)
         IN  IF row.type = "human"
             THEN PairUp(Tail(rows), row.content)
             ELSE IF row.type = "assistant" /\ cur # None
             THEN << [human |-> cur, ai |-> row.content, isUpdate |-> row.upd] >>
                  \o PairUp(Tail(rows), None)
             ELSE PairUp(Tail(rows), cur)

HistoryPairs(d, sid, limit) ==
    PairUp(LastN(SortedTurns(SessionTurns(d, sid)), 2 * limit), None)

\* _get_recent_messages(session_id, window_size): the contents of the last
\* 2 * window_size rows of the session by message_order, oldest first.
RecentMessages(d, sid) ==
    LET rows == LastN(SortedTurns(SessionTurns(d, sid)), 2 * WindowSize)
    IN  [ i \in 1 .. Len(rows) |-> rows[i].content ]

\* ---------------------------------------------------------- updated_plans
PairPlans(d, u, r) == { p \in d.plans : p.user = u /\ p.role = r }

\* the greatest version_number stored for the pair, 0 if it has no version
MaxVersion(d, u, r) ==
    IF PairPlans(d, u, r) = {} THEN 0
    ELSE SetMax({ p.version : p \in PairPlans(d, u, r) })

\* Fault injection for C3: the next version taken from the current row instead
\* of from the maximum over all rows of the pair.
NextVersionAfterCurrent(d, u, r) ==
    LET cur == { p \in PairPlans(d, u, r) : p.current }
    IN  IF cur = {} THEN 1 ELSE SetMax({ p.version : p \in cur }) + 1

\* SELECT COALESCE(MAX(version_number), 0) + 1 FROM updated_plans WHERE ...
NextVersion(d, u, r) == MaxVersion(d, u, r) + 1

\* Fault injection for C1: the UPDATE left out.
KeepCurrentPlans(d, u, r) == d

\* UPDATE updated_plans SET is_current = FALSE WHERE user_id = ? AND agent_type = ?
UnsetCurrentPlans(d, u, r) ==
    [d EXCEPT !.plans =
        { IF p.user = u /\ p.role = r THEN [p EXCEPT !.current = FALSE] ELSE p
          : p \in d.plans }]

\* INSERT INTO updated_plans (..., version_number, is_current) VALUES (..., TRUE)
InsertPlan(d, u, r, plan, conv, version) ==
    [d EXCEPT
       !.plans = @ \cup
          { [id |-> d.nextPlanId, user |-> u, role |-> r, plan |-> plan,
             conv |-> conv, version |-> version, current |-> TRUE] },
       !.nextPlanId = @ + 1]

\* The transaction of save_updated_plan_with_versioning.
SavePlanTxn(d, u, r, plan, conv, version) ==
    InsertPlan(UnsetCurrentPlans(d, u, r), u, r, plan, conv, version)

\* Fault injection for C24: the DELETEs and the UPDATE without their user_id.
ResetTxnEveryUser(d, u, r) ==
    [d EXCEPT
       !.plans = { p \in @ : p.role # r },
       !.turns = { t \in @ : t.role # r },
       !.sessions = { IF s.role = r THEN [s EXCEPT !.status = "cleared"] ELSE s
                      : s \in d.sessions }]

\* The transaction of reset_to_original_plan.
ResetTxn(d, u, r) ==
    [d EXCEPT
       !.plans = { p \in @ : ~(p.user = u /\ p.role = r) },
       !.turns = { t \in @ : ~(t.user = u /\ t.role = r) },
       !.sessions = { IF s.user = u /\ s.role = r
                      THEN [s EXCEPT !.status = "cleared"] ELSE s
                      : s \in d.sessions }]

\* ----------------------------------------------------------- agent_history
PairBase(d, u, r) == { b \in d.base : b.user = u /\ b.role = r }

\* save_history: the plan generator stores a base plan.
InsertBase(d, u, r) ==
    [d EXCEPT
       !.base = @ \cup { [id |-> d.nextBaseId, user |-> u, role |-> r,
                          rec |-> "base"] },
       !.nextBaseId = @ + 1]

\* ---------------------------------------------------- context_references
\* Fault injection for C30: a failure of the extraction raised to add_message.
ExtractContextReferencesRaising(d, w, conv, msg, u, r) ==
    LET wanted == (KeywordsOf(msg).pkw /\ PairBase(d, u, r) # {}) \/ KeywordsOf(msg).ref
    IN  [ db |-> d, outcome |-> IF wanted THEN "locked" ELSE "nothing",
          raised |-> wanted ]

\* _extract_context_references(conversation_id, message, user, role), called by
\* add_message between its INSERTs and its commit, on a connection of its own.
\* w is the holder of the write lock.  A plan keyword makes it look up the
\* latest base plan of the pair and, if there is one, insert a 'plan'
\* reference; a reference keyword makes it insert a 'previous_message'
\* reference.  An INSERT that meets a held write lock raises after the busy
\* timeout; the except branch prints the error and the method returns normally.
ExtractContextReferences(d, w, conv, msg, u, r) ==
    LET wantsPlan == KeywordsOf(msg).pkw /\ PairBase(d, u, r) # {}
        wantsRef  == KeywordsOf(msg).ref
        \* SELECT id FROM agent_history ... ORDER BY created_at DESC LIMIT 1
        latest == { b \in PairBase(d, u, r) : \A o \in PairBase(d, u, r) : o.id <= b.id }
        \* confidence_score in tenths: 0.8 and 0.6; reference_id 0: NULL
        rows == (IF wantsPlan
                 THEN { [conv |-> conv, type |-> "plan", ref |-> b.id, conf |-> 8] :
                            b \in latest }
                 ELSE {})
                \cup (IF wantsRef
                      THEN { [conv |-> conv, type |-> "previous_message",
                              ref |-> 0, conf |-> 6] }
                      ELSE {})
    IN  IF rows = {}
        THEN [ db |-> d, outcome |-> "nothing", raised |-> FALSE ]
        ELSE IF w # None
        THEN [ db |-> d, outcome |-> "locked", raised |-> FALSE ]
        ELSE [ db |-> [d EXCEPT !.refs = @ \cup rows], outcome |-> "saved",
               raised |-> FALSE ]

\* Fault injection for C23: the base plan looked up before the current revision.
CurrentPlanContextBaseFirst(d, u, r) ==
    LET cur == { p \in PairPlans(d, u, r) : p.current }
    IN  IF PairBase(d, u, r) # {}
        THEN LET b == CHOOSE x \in PairBase(d, u, r) :
                          \A y \in PairBase(d, u, r) : y.id <= x.id
             IN  [current_plan |-> b.rec, is_updated |-> FALSE, version |-> 1]
        ELSE IF cur # {}
        THEN LET p == CHOOSE x \in cur : \A y \in cur : y.id <= x.id
             IN  [current_plan |-> p.plan, is_updated |-> TRUE, version |-> p.version]
        ELSE [current_plan |-> None, is_updated |-> FALSE, version |-> 0]

\* get_current_plan_context: the current revision, else the latest base plan,
\* else the 'no plan' answer.  created_at grows with the row id.
CurrentPlanContext(d, u, r) ==
    LET cur == { p \in PairPlans(d, u, r) : p.current }
    IN  IF cur # {}
        THEN LET p == CHOOSE x \in cur : \A y \in cur : y.id <= x.id
             IN  [current_plan |-> p.plan, is_updated |-> TRUE, version |-> p.version]
        ELSE IF PairBase(d, u, r) # {}
        THEN LET b == CHOOSE x \in PairBase(d, u, r) :
                          \A y \in PairBase(d, u, r) : y.id <= x.id
             IN  [current_plan |-> b.rec, is_updated |-> FALSE, version |-> 1]
        ELSE [current_plan |-> None, is_updated |-> FALSE, version |-> 0]

\* ------------------------------------------- whole methods, uninterrupted
\* get_conversation_context calls get_session_id three times (itself,
\* get_buffer_window_memory, get_summary_memory); 'session_id' of the context is
\* the answer of the first call.
GetConversationContextSeq(d, u, r, now) ==
    LET g1 == GetSessionIdSeq(d, u, r, now)
        g2 == GetSessionIdSeq(g1.db, u, r, now)
        g3 == GetSessionIdSeq(g2.db, u, r, now)
    IN  [db |-> g3.db, sid |-> g1.sid]

GetConversationHistorySeq(d, u, r, limit, now) ==
    LET c == GetConversationContextSeq(d, u, r, now)
    IN  [db |-> c.db, result |-> HistoryPairs(c.db, c.sid, limit)]

\* clear_conversation: clear_session, then the current flags.
ClearConversationSeq(d, u, r, now) ==
    LET g == GetSessionIdSeq(d, u, r, now)
    IN  UnsetCurrentPlans(ClearSessionTxn(g.db, g.sid), u, r)

\* ------------------------------------------------------------------ state
VARIABLES
    db,          \* the committed database
    clock,       \* the epoch second
    writer,      \* the thread holding SQLite's write lock, or None
    pc,          \* where each thread is in its method
    loc,         \* each thread's arguments and local variables
    lastSaved,   \* history: per pair, the exchange of the last add_message that
                 \* returned True, None once a clear or reset ran after it
    sinceClear,  \* history: per pair, "clear" once clear_conversation returned
                 \* True, "turn" once a turn was saved after that, "none" once a
                 \* plan revision was saved after that (and at the start)
    maxIssued,   \* history: per pair, the greatest version number ever assigned
    overlaps,    \* history: the requests that arrived while another was served
    det          \* an application of the detector on its own: inputs and result

vars == << db, clock, writer, pc, loc, lastSaved, sinceClear, maxIssued, overlaps, det >>
hist == << lastSaved, sinceClear, maxIssued >>

\* ------------------------------------------------ detect_plan_update_advanced
\* A text is known by what the detector looks at: upd, it contains an
\* update-request keyword (compared in lower case); plan, it contains a
\* plan-response phrase (compared in lower case); len, its length; struct, it
\* contains one of the structure markers '##', '**', '1.', '2.', 'Week', 'Day'.
ResponseContainsPlan(resp) == resp.plan

\* Fault injection for C11: '>=' in place of '>'.
AtLeastSubstantial(resp) == resp.len >= SubstantialLength

IsSubstantial(resp) == resp.len > SubstantialLength

HasStructure(resp) == resp.struct

\* Fault injection for C12: every message taken as a request for an update.
AnyMessageWantsUpdate(msg) == TRUE

UserWantsUpdate(msg) == msg.upd

\* any update-request keyword in the text of recent_messages[-4:]
RecentContextAboutPlans(recent) ==
    \E i \in 1 .. Len(recent) : i > Len(recent) - RecentWindow /\ recent[i].upd

\* Fault injection for C25: the decision made to depend on the stored plan
\* versions.
DetectUnlessPlanStored(msg, resp, recent) ==
    /\ db.plans = {}
    /\ \/ (UserWantsUpdate(msg) /\ ResponseContainsPlan(resp)
               /\ IsSubstantial(resp) /\ HasStructure(resp))
       \/ (RecentContextAboutPlans(recent) /\ ResponseContainsPlan(resp)
               /\ IsSubstantial(resp))

DetectPlanUpdateAdvanced(msg, resp, recent) ==
    \/ (UserWantsUpdate(msg) /\ ResponseContainsPlan(resp)
            /\ IsSubstantial(resp) /\ HasStructure(resp))
    \/ (RecentContextAboutPlans(recent) /\ ResponseContainsPlan(resp)
            /\ IsSubstantial(resp))

\* the inputs the detector is applied to on its own
Texts ==
    [ upd : BOOLEAN, plan : BOOLEAN,
      len : { SubstantialLength, SubstantialLength + 1 }, struct : BOOLEAN ]

RECURSIVE SeqsUpTo(_, _)
SeqsUpTo(S, n) ==
    IF n = 0 THEN { << >> }
    ELSE LET shorter == SeqsUpTo(S, n - 1)
         IN  shorter \cup { Append(q, x) : q \in shorter, x \in S }

PlainText(upd) == [ upd |-> upd, plan |-> FALSE, len |-> 1, struct |-> FALSE ]

NoDetection == [ msg |-> PlainText(FALSE), resp |-> PlainText(FALSE),
                 recent |-> << >>, applied |-> FALSE, result |-> FALSE ]

\* ------------------------------------------------------- threads
IdleLoc ==
    [ op |-> None, u |-> 0, r |-> None, h |-> None, a |-> None, f |-> FALSE,
      plan |-> None, conv |-> 0, limit |-> 0, calls |-> 0, ret |-> None,
      found |-> NoSid, sid |-> NoSid, sid0 |-> NoSid, next |-> 0, at |-> 0,
      result |-> None,
      \* history: the call overlapped another call of the same method
      raced |-> FALSE,
      \* history of a save: the greatest version stored and the greatest ever
      \* assigned just before its commit, and sinceClear at its commit
      stored |-> 0, before |-> 0, window |-> "none",
      \* generate_response: the recent messages of the context it assembled,
      \* what the model call gave, what add_message returned, whether
      \* save_updated_plan_with_versioning returned True
      recent |-> << >>, llm |-> NoOutcome, mem |-> FALSE, saved |-> FALSE,
      \* add_message: how its call of _extract_context_references ended
      extract |-> "none",
      \* get_summary_memory: the summary it got, and the history of
      \* _get_or_create_session_summary: the session it was called for, the
      \* active summary stored for it and the number of its turns at the SELECTs
      \* (had = None: no summary), whether the summarizer was invoked, whether
      \* its call failed, whether a summary row was inserted; for
      \* get_conversation_context, the sessions that had an active summary
      \* when it was called
      summary |-> None,
      \* _create_conversation_summary: the turns of its summary prompt
      transcript |-> {},
      sm |-> [ checked |-> FALSE, sid |-> NoSid, had |-> None, count |-> 0,
               invoked |-> FALSE, failed |-> FALSE, stored |-> FALSE,
               before |-> {} ],
      \* history of a chat request: its agentType and message, and the tables
      \* when it arrived
      req |-> [ role |-> None, raw |-> [ body |-> "", pad |-> 0 ] ],
      snap |-> [ sessions |-> {}, turns |-> {}, plans |-> {}, base |-> {} ] ]

Init ==
    /\ db = EmptyDb
    /\ clock = 0
    /\ writer = None
    /\ pc = [t \in Threads |-> "idle"]
    /\ loc = [t \in Threads |-> IdleLoc]
    /\ lastSaved = [p \in AllPairs |-> None]
    /\ sinceClear = [p \in AllPairs |-> "none"]
    /\ maxIssued = [p \in AllPairs |-> 0]
    /\ overlaps = 0
    /\ det = NoDetection

\* The thread is between two requests: it has served none yet, or its last
\* method has returned (loc keeps what it returned).
Free(t) == pc[t] \in {"idle", "done"}

InOp(t, op) == loc[t].op = op /\ pc[t] \notin {"idle", "done"}

\* the running calls of op
Running(op) == Cardinality({ t \in Threads : InOp(t, op) })

Goto(t, where, l) ==
    /\ pc' = [pc EXCEPT ![t] = where]
    /\ loc' = [loc EXCEPT ![t] = l]

\* the tables as a request finds them
ChatSnapshot ==
    [ sessions |-> db.sessions, turns |-> db.turns, plans |-> db.plans,
      base |-> db.base ]

\* generate_response returns; loc keeps its result and what the claims compare.
ChatReturn(t, l, success) ==
    Goto(t, "done",
         [IdleLoc EXCEPT !.op = l.op, !.u = l.u, !.r = l.r, !.h = l.h, !.a = l.a,
                         !.f = l.f, !.conv = l.conv, !.next = l.next, !.llm = l.llm,
                         !.recent = l.recent, !.mem = l.mem, !.saved = l.saved,
                         !.extract = l.extract, !.req = l.req, !.snap = l.snap,
                         !.sm = l.sm,
                         !.result = [ success |-> success,
                                      response |-> IF success THEN l.a ELSE None,
                                      contains_plan_update |-> success /\ l.f ]])

\* Fault injection for C18: a failed add_message fails the request.
ChatResumeStrict(t, l0, res) ==
    IF pc[t] \in { "am_ins", "am_commit" }
    THEN LET l == [l0 EXCEPT !.mem = res, !.calls = 1, !.ret = "gr_lookup",
                                 !.sid0 = NoSid]
         IN  IF ~res THEN ChatReturn(t, l, FALSE)
             ELSE IF l.f THEN Goto(t, "gs_sel", l) ELSE ChatReturn(t, l, TRUE)
    ELSE ChatReturn(t, [l0 EXCEPT !.saved = res], TRUE)

\* add_message or save_updated_plan_with_versioning returns res to
\* generate_response, which goes on: after add_message with the lookup of the
\* assistant turn if the turn is a plan update, else with its return.
ChatResume(t, l0, res) ==
    IF pc[t] \in { "am_ins", "am_commit" }
    THEN LET l == [l0 EXCEPT !.mem = res, !.calls = 1, !.ret = "gr_lookup",
                                 !.sid0 = NoSid]
         IN  IF l.f THEN Goto(t, "gs_sel", l) ELSE ChatReturn(t, l, TRUE)
    ELSE ChatReturn(t, [l0 EXCEPT !.saved = res], TRUE)

\* The method, with locals l, returns res; of its locals only the history
\* fields are kept.
FinishWith(t, l, res) ==
    IF l.op = "generate_response"
    THEN ChatResume(t, l, res)
    ELSE Goto(t, "done", [IdleLoc EXCEPT !.op = l.op, !.u = l.u,
                             !.r = l.r, !.sid = l.sid, !.next = l.next,
                             !.raced = l.raced, !.extract = l.extract,
                             !.result = res])

Finish(t, res) == FinishWith(t, loc[t], res)

\* ------------------------------------------------------- get_session_id
\* The SELECT of get_session_id.
GsSelect(t) ==
    /\ pc[t] = "gs_sel"
    /\ LET c == ActiveCandidates(db, loc[t].u, loc[t].r)
       IN  \E found \in (IF c = {} THEN {NoSid} ELSE c) :
               Goto(t, "gs_wr", [loc[t] EXCEPT !.found = found])
    /\ UNCHANGED << db, clock, overlaps, det, writer, hist >>

\* The method returns sid to its caller, which may call it again.
GsReturn(t, sid) ==
    LET l == [loc[t] EXCEPT !.sid = sid,
                            !.sid0 = IF @ = NoSid THEN sid ELSE @,
                            !.calls = @ - 1,
                            \* get_buffer_window_memory, the second caller in
                            \* generate_response's first context assembly
                            !.recent = IF \/ loc[t].op = "generate_response"
                                             /\ loc[t].calls = 5
                                          \/ loc[t].op = "context" /\ loc[t].calls = 2
                                       THEN RecentMessages(db, sid) ELSE @]
    IN  IF \/ loc[t].ret = "gr_llm" /\ loc[t].calls \in {1, 4}
           \/ loc[t].ret \in {"h_read", "ctx_ret"} /\ loc[t].calls = 1
        THEN \* get_summary_memory goes on with _get_or_create_session_summary
             Goto(t, "sm_sel", l)
        ELSE IF l.calls > 0 THEN Goto(t, "gs_sel", l) ELSE Goto(t, l.ret, l)

\* The UPDATE or INSERT of get_session_id and its commit.
GsWrite(t) ==
    /\ pc[t] = "gs_wr"
    /\ writer = None
    /\ LET g == GetSessionWrite(db, loc[t].u, loc[t].r, loc[t].found, clock)
       IN  /\ db' = g.db
           /\ GsReturn(t, g.sid)
    /\ UNCHANGED << clock, overlaps, det, writer, hist >>

\* The write lock is held by another connection until the busy timeout: the
\* statement raises and the except branch answers with the fallback identifier.
GsBusy(t) ==
    /\ pc[t] = "gs_wr"
    /\ writer # None
    /\ GsReturn(t, FallbackSessionId(loc[t].u, loc[t].r))
    /\ UNCHANGED << db, clock, overlaps, det, writer, hist >>

\* ------------------------ get_summary_memory, _get_or_create_session_summary
\* get_summary_memory has its summary; get_conversation_context goes on (with
\* SELECTs only), and its caller with the next context or with its own work.
SmDone(t, l) ==
    IF l.calls > 0 THEN Goto(t, "gs_sel", l) ELSE Goto(t, l.ret, l)

\* Fault injection for C33: the SELECTs run inside a write transaction.
HolderAfterSelectLocking(w, t) == IF w = None THEN t ELSE w

\* The SELECTs of _get_or_create_session_summary and of
\* _create_conversation_summary begin no transaction (sqlite3 opens one before
\* the first INSERT, UPDATE or DELETE only): the write lock, held by w or by
\* nobody, stays where it is when thread t goes on to the summarization call.
HolderAfterSelect(w, t) == w

\* _get_or_create_session_summary(session_id, ...) for the session that
\* get_session_id has just answered: the stored active summary if there is one;
\* else the summarizer if the session is long; else None.
SmSelect(t) ==
    /\ pc[t] = "sm_sel"
    /\ LET sid  == loc[t].sid
           act  == ActiveSummaries(db, sid)
           l    == [loc[t] EXCEPT !.sm.checked = TRUE, !.sm.sid = sid,
                                  !.sm.count = Cardinality(SessionTurns(db, sid)),
                                  !.sm.had = None, !.summary = None]
       IN  IF act # {}
           THEN /\ \E m \in act :
                       SmDone(t, [l EXCEPT !.summary = m.content, !.sm.had = m.content])
                /\ UNCHANGED writer
           ELSE IF SessionIsLong(db, sid)
           THEN Goto(t, "sm_llm", l) /\ writer' = HolderAfterSelect(writer, t)
           ELSE SmDone(t, l) /\ UNCHANGED writer
    /\ UNCHANGED << db, clock, overlaps, det, hist >>

\* _create_conversation_summary: SELECT the turns of the session ('' if there
\* is none), then self.llm.invoke(summary_prompt).
SmInvoke(t) ==
    /\ pc[t] = "sm_llm"
    /\ IF SessionTurns(db, loc[t].sid) = {}
       THEN SmDone(t, [loc[t] EXCEPT !.summary = ""])
       ELSE \E out \in SummaryOutcomes :
               LET ans == SummarizerAnswer(out)
                   l   == [loc[t] EXCEPT !.summary = ans.text, !.sm.invoked = TRUE,
                                         !.sm.failed = @ \/ out.kind = "error",
                                         !.transcript =
                                            IF ans.store
                                            THEN SummarizedTurns(db, loc[t].sid)
                                            ELSE {}]
               IN  IF ans.store THEN Goto(t, "sm_ins", l) ELSE SmDone(t, l)
    /\ UNCHANGED << db, clock, overlaps, det, writer, hist >>

\* INSERT INTO memory_summaries; conn.commit(); return summary.
SmInsert(t) ==
    /\ pc[t] = "sm_ins"
    /\ writer = None
    /\ db' = InsertSummary(db, loc[t].sid, loc[t].u, loc[t].r, loc[t].summary,
                           loc[t].transcript, clock)
    /\ SmDone(t, [loc[t] EXCEPT !.sm.stored = TRUE, !.transcript = {}])
    /\ UNCHANGED << clock, overlaps, det, writer, hist >>

\* database is locked: the except branch returns ''.
SmBusy(t) ==
    /\ pc[t] = "sm_ins"
    /\ writer # None
    /\ SmDone(t, [loc[t] EXCEPT !.summary = "", !.transcript = {}])
    /\ UNCHANGED << db, clock, overlaps, det, writer, hist >>

\* ---------------------------------------------- get_conversation_context
StartContext(t, u, r) ==
    /\ Free(t)
    /\ Goto(t, "gs_sel", [IdleLoc EXCEPT !.op = "context", !.u = u, !.r = r,
                             !.calls = 3, !.ret = "ctx_ret",
                             !.sm.before = { m.sid : m \in { x \in db.summaries : x.active } }])
    /\ UNCHANGED << db, clock, writer, hist >>

\* the context is returned: session_id of the first get_session_id, the recent
\* messages, context['summary'] = summary_memory.buffer or ''
CtxReturn(t) ==
    /\ pc[t] = "ctx_ret"
    /\ Goto(t, "done",
            [IdleLoc EXCEPT !.op = "context", !.u = loc[t].u, !.r = loc[t].r,
                            !.sm = loc[t].sm,
                            !.result =
                               [ session_id |-> loc[t].sid0,
                                 recent_messages |-> loc[t].recent,
                                 summary |-> IF loc[t].summary = None THEN ""
                                             ELSE loc[t].summary ]])
    /\ UNCHANGED << db, clock, overlaps, det, writer, hist >>

\* ---------------------------------------------------------- add_message
BeginAddMessage(t, u, r, e) ==
    /\ Free(t)
    /\ Goto(t, "gs_sel", [IdleLoc EXCEPT !.op = "add_message", !.u = u, !.r = r,
                             !.h = e[1], !.a = e[2], !.f = e[3],
                             !.calls = 1, !.ret = "am_max"])
    /\ UNCHANGED << db, clock, writer, hist >>

StartAddMessage(t, u, r, e) ==
    /\ (db.nextTurnId - 1) \div 2 + Running("add_message") < MaxExchanges
    /\ BeginAddMessage(t, u, r, e)

\* SELECT COALESCE(MAX(message_order), 0) + 1, before the transaction begins.
AmMax(t) ==
    /\ pc[t] = "am_max"
    /\ Goto(t, "am_ins", [loc[t] EXCEPT !.next = NextOrder(db, loc[t].sid)])
    /\ UNCHANGED << db, clock, overlaps, det, writer, hist >>

\* The first INSERT begins the transaction and takes the write lock; the second
\* INSERT and the UPDATE of the session follow under it.
AmInsert(t) ==
    /\ pc[t] = "am_ins"
    /\ writer = None
    /\ writer' = t
    /\ Goto(t, "am_commit", [loc[t] EXCEPT !.at = clock])
    /\ UNCHANGED << db, clock, overlaps, det, hist >>

\* database is locked: except branch, rollback, return False.
AmBusy(t) ==
    /\ pc[t] = "am_ins"
    /\ writer # None
    /\ Finish(t, FALSE)
    /\ UNCHANGED << db, clock, overlaps, det, writer, hist >>

\* self._extract_context_references(human_conversation_id, ...), under the
\* write lock add_message holds; then conn.commit(); return True.  (Were the
\* extraction to raise, the except branch would roll back and return False.)
AmCommit(t) ==
    /\ pc[t] = "am_commit"
    /\ LET x == ExtractContextReferences(db, writer, db.nextTurnId, loc[t].h,
                                         loc[t].u, loc[t].r)
           l == [loc[t] EXCEPT !.extract = x.outcome]
       IN  IF x.raised
           THEN /\ FinishWith(t, l, FALSE)
                /\ UNCHANGED << db, hist >>
           ELSE /\ db' = AddMessageTxn(x.db, l.sid, l.u, l.r, l.h, l.a, l.f, l.next, l.at)
                /\ FinishWith(t, l, TRUE)
                /\ lastSaved' = [lastSaved EXCEPT ![<<l.u, l.r>>] = << l.h, l.a, l.f >>]
                /\ sinceClear' = [sinceClear EXCEPT ![<<l.u, l.r>>] =
                                     IF @ = "clear" THEN "turn" ELSE @]
                /\ UNCHANGED maxIssued
    /\ writer' = None
    /\ UNCHANGED << clock, overlaps, det >>

\* A statement of the transaction raises (a storage error): rollback, return False.
AmRollback(t) ==
    /\ pc[t] = "am_commit"
    /\ writer' = None
    /\ Finish(t, FALSE)
    /\ UNCHANGED << db, clock, overlaps, det, hist >>

\* ------------------------------------ save_updated_plan_with_versioning
AssistantTurns(u, r) ==
    { y \in db.turns : y.user = u /\ y.role = r /\ y.type = "assistant" }

\* save_updated_plan_with_versioning called as generate_response calls it once
\* the exchange it saved is the pair's latest: conversation_id is the id of the
\* latest assistant turn and updated_plan is that turn's content.
StartSave(t, u, r) ==
    /\ Free(t)
    /\ db.nextPlanId + Running("save_plan") <= MaxPlanId
    /\ AssistantTurns(u, r) # {}
    /\ LET row == CHOOSE x \in AssistantTurns(u, r) :
                      \A y \in AssistantTurns(u, r) : y.id <= x.id
           new == [IdleLoc EXCEPT !.op = "save_plan", !.u = u, !.r = r,
                                  !.plan = row.content, !.conv = row.id,
                                  !.raced = Running("save_plan") > 0]
       IN  /\ pc' = [pc EXCEPT ![t] = "sp_upd"]
           /\ loc' = [s \in Threads |->
                         IF s = t THEN new
                         ELSE IF InOp(s, "save_plan")
                         THEN [loc[s] EXCEPT !.raced = TRUE]
                         ELSE loc[s]]
    /\ UNCHANGED << db, clock, writer, hist >>

\* Fault injection for C2: the version read before any statement has taken the
\* write lock (the order of statements add_message uses).
SpUpdateUnlocked(t) ==
    /\ pc[t] = "sp_upd"
    /\ Goto(t, "sp_commit", [loc[t] EXCEPT !.next = NextVersion(db, loc[t].u, loc[t].r)])
    /\ UNCHANGED << db, clock, overlaps, det, writer, hist >>

\* UPDATE ... SET is_current = FALSE begins the transaction and takes the write
\* lock; SELECT MAX(version_number) + 1 is read under it.
SpUpdate(t) ==
    /\ pc[t] = "sp_upd"
    /\ writer = None
    /\ writer' = t
    /\ Goto(t, "sp_commit", [loc[t] EXCEPT !.next = NextVersion(db, loc[t].u, loc[t].r)])
    /\ UNCHANGED << db, clock, overlaps, det, hist >>

SpBusy(t) ==
    /\ pc[t] = "sp_upd"
    /\ writer # None
    /\ Finish(t, FALSE)
    /\ UNCHANGED << db, clock, overlaps, det, writer, hist >>

\* INSERT of the new current row; conn.commit(); return True.
SpCommit(t) ==
    /\ pc[t] = "sp_commit"
    /\ db' = SavePlanTxn(db, loc[t].u, loc[t].r, loc[t].plan, loc[t].conv, loc[t].next)
    /\ writer' = None
    /\ IF loc[t].op = "generate_response"
       THEN ChatResume(t, loc[t], TRUE)
       ELSE Goto(t, "done",
                 [IdleLoc EXCEPT !.op = loc[t].op, !.u = loc[t].u, !.r = loc[t].r,
                                 !.next = loc[t].next, !.raced = loc[t].raced,
                                 !.result = TRUE,
                                 !.window = sinceClear[<<loc[t].u, loc[t].r>>],
                                 !.stored = MaxVersion(db, loc[t].u, loc[t].r),
                                 !.before = maxIssued[<<loc[t].u, loc[t].r>>]])
    /\ maxIssued' = [maxIssued EXCEPT ![<<loc[t].u, loc[t].r>>] =
                        IF loc[t].next > @ THEN loc[t].next ELSE @]
    /\ sinceClear' = [sinceClear EXCEPT ![<<loc[t].u, loc[t].r>>] = "none"]
    /\ UNCHANGED << clock, overlaps, det, lastSaved >>

\* ---------------------------------- clear_conversation / clear_session
StartClear(t, u, r) ==
    /\ Free(t)
    /\ Goto(t, "gs_sel", [IdleLoc EXCEPT !.op = "clear_conversation", !.u = u, !.r = r,
                             !.calls = 1, !.ret = "cs_upd"])
    /\ UNCHANGED << db, clock, writer, hist >>

\* clear_session: UPDATE ... SET status = 'cleared' takes the write lock.
CsUpdate(t) ==
    /\ pc[t] = "cs_upd"
    /\ writer = None
    /\ writer' = t
    /\ Goto(t, "cs_commit", loc[t])
    /\ UNCHANGED << db, clock, overlaps, det, hist >>

\* clear_session returns False, and so does clear_conversation.
CsBusy(t) ==
    /\ pc[t] = "cs_upd"
    /\ writer # None
    /\ Finish(t, FALSE)
    /\ UNCHANGED << db, clock, overlaps, det, writer, hist >>

\* the two DELETEs and the commit of clear_session
CsCommit(t) ==
    /\ pc[t] = "cs_commit"
    /\ db' = ClearSessionTxn(db, loc[t].sid)
    /\ writer' = None
    /\ Goto(t, "cc_upd", loc[t])
    /\ lastSaved' = [lastSaved EXCEPT ![<<loc[t].u, loc[t].r>>] = None]
    /\ UNCHANGED << clock, overlaps, det, sinceClear, maxIssued >>

\* clear_conversation: UPDATE updated_plans SET is_current = FALSE; commit; return True.
CcUpdate(t) ==
    /\ pc[t] = "cc_upd"
    /\ writer = None
    /\ db' = UnsetCurrentPlans(db, loc[t].u, loc[t].r)
    /\ Finish(t, TRUE)
    /\ sinceClear' = [sinceClear EXCEPT ![<<loc[t].u, loc[t].r>>] = "clear"]
    /\ UNCHANGED << clock, overlaps, det, writer, lastSaved, maxIssued >>

\* The UPDATE raises: the except branch of clear_conversation returns False.
CcBusy(t) ==
    /\ pc[t] = "cc_upd"
    /\ writer # None
    /\ Finish(t, FALSE)
    /\ UNCHANGED << db, clock, overlaps, det, writer, hist >>

\* ------------------------------------------------ reset_to_original_plan
StartReset(t, u, r) ==
    /\ Free(t)
    /\ Goto(t, "rs_del", [IdleLoc EXCEPT !.op = "reset", !.u = u, !.r = r])
    /\ UNCHANGED << db, clock, writer, hist >>

\* DELETE FROM updated_plans takes the write lock.
RsDelete(t) ==
    /\ pc[t] = "rs_del"
    /\ writer = None
    /\ writer' = t
    /\ Goto(t, "rs_commit", loc[t])
    /\ UNCHANGED << db, clock, overlaps, det, hist >>

RsBusy(t) ==
    /\ pc[t] = "rs_del"
    /\ writer # None
    /\ Finish(t, FALSE)
    /\ UNCHANGED << db, clock, overlaps, det, writer, hist >>

RsCommit(t) ==
    /\ pc[t] = "rs_commit"
    /\ db' = ResetTxn(db, loc[t].u, loc[t].r)
    /\ writer' = None
    /\ Finish(t, TRUE)
    /\ lastSaved' = [lastSaved EXCEPT ![<<loc[t].u, loc[t].r>>] = None]
    /\ UNCHANGED << clock, overlaps, det, sinceClear, maxIssued >>

\* ----------------------------------------------- get_conversation_history
StartHistory(t, u, r, limit) ==
    /\ Free(t)
    /\ Goto(t, "gs_sel", [IdleLoc EXCEPT !.op = "history", !.u = u, !.r = r,
                             !.limit = limit, !.calls = 3, !.ret = "h_read"])
    /\ UNCHANGED << db, clock, writer, hist >>

\* the SELECT over the context's session and the pairing loop
HRead(t) ==
    /\ pc[t] = "h_read"
    /\ Finish(t, HistoryPairs(db, loc[t].sid0, loc[t].limit))
    /\ UNCHANGED << db, clock, overlaps, det, writer, hist >>

\* ----------------------------------------------- get_current_plan_context
GetCurrentPlanContext(t, u, r) ==
    /\ Free(t)
    /\ Goto(t, "done", [IdleLoc EXCEPT !.op = "plan_context", !.u = u, !.r = r,
                           !.snap = ChatSnapshot,
                           !.result = CurrentPlanContext(db, u, r)])
    /\ UNCHANGED << db, clock, writer, hist >>

\* ------------------------------------- enhanced_chat_endpoint, generate_response
\* Fault injection for C17: the test on the length of the message left out.
ValidChatAnyLength(role, raw) ==
    /\ role \in ValidAgents
    /\ Strip(raw) # ""

\* message = data['message'].strip(), then the tests of the endpoint (and of
\* generate_response, which repeats those on the role and on the empty message)
ValidChat(role, raw) ==
    /\ role \in ValidAgents
    /\ Strip(raw) # ""
    /\ TextOf(Strip(raw)).len <= MaxMessageLength

\* the request is answered with a validation error (HTTP 400)
RejectChat(t, role, raw) ==
    /\ Free(t)
    /\ ~ValidChat(role, raw)
    /\ ChatReturn(t, [IdleLoc EXCEPT !.op = "rejected_chat",
                                     !.req = [ role |-> role, raw |-> raw ],
                                     !.snap = ChatSnapshot],
                  FALSE)
    /\ UNCHANGED << db, clock, writer, hist >>

\* generate_response begins with get_conversation_context and
\* create_enhanced_system_prompt, which calls get_conversation_context again:
\* six calls of get_session_id.
BeginChat(t, u, r, raw) ==
    /\ Free(t)
    /\ ValidChat(r, raw)
    /\ db.nextPlanId <= MaxPlanId
    /\ Goto(t, "gs_sel", [IdleLoc EXCEPT !.op = "generate_response", !.u = u, !.r = r,
                             !.h = Strip(raw), !.calls = 6, !.ret = "gr_llm",
                             !.req = [ role |-> r, raw |-> raw ],
                             !.snap = ChatSnapshot])
    /\ UNCHANGED << db, clock, writer, hist >>

StartChat(t, u, r, raw) ==
    /\ (db.nextTurnId - 1) \div 2 < MaxExchanges
    /\ BeginChat(t, u, r, raw)

\* Fault injection for C15: the test for an empty content left out.
NeverEmptyContent(out) == FALSE

\* not response.content
EmptyContent(out) == out.body = "" /\ out.pad = 0

\* response = self.model.invoke(messages): an exception or an empty content ends
\* the request with success = False; else the content is stripped, the detector
\* is applied, and add_message is called.
GrModel(t) ==
    /\ pc[t] = "gr_llm"
    /\ \E out \in LlmOutcomes :
          LET l == [loc[t] EXCEPT !.llm = out]
              recent == [ i \in 1 .. Len(loc[t].recent) |-> TextOf(loc[t].recent[i]) ]
              f == DetectPlanUpdateAdvanced(TextOf(loc[t].h), TextOf(Strip(out)), recent)
          IN  IF out.kind = "error" \/ EmptyContent(out)
              THEN ChatReturn(t, l, FALSE) /\ UNCHANGED det
              ELSE /\ Goto(t, "gs_sel",
                           [l EXCEPT !.a = Strip(out), !.f = f,
                                     !.calls = 1, !.ret = "am_max", !.sid0 = NoSid])
                   \* history: the first evaluation of the detector
                   /\ det' = IF det.applied THEN det
                             ELSE [ msg |-> TextOf(loc[t].h), resp |-> TextOf(Strip(out)),
                                    recent |-> recent, applied |-> TRUE, result |-> f ]
    /\ UNCHANGED << db, clock, overlaps, writer, hist >>

\* SELECT id FROM conversations WHERE session_id = ? AND message_type =
\* 'assistant' ORDER BY message_order DESC LIMIT 1, in the session get_session_id
\* has just answered; without a row generate_response returns, with one it calls
\* save_updated_plan_with_versioning(user, role, ai_response, ..., id).
GrLookup(t) ==
    /\ pc[t] = "gr_lookup"
    /\ LET rows == { x \in SessionTurns(db, loc[t].sid) : x.type = "assistant" }
           top  == { x \in rows : \A y \in rows : y.ord <= x.ord }
       IN  IF rows = {}
           THEN ChatReturn(t, loc[t], TRUE)
           ELSE \E x \in top :
                    Goto(t, "sp_upd", [loc[t] EXCEPT !.plan = loc[t].a, !.conv = x.id])
    /\ UNCHANGED << db, clock, overlaps, det, writer, hist >>

\* ------------------------------------------------------------ environment
\* A second passes.
Tick ==
    /\ clock < MaxClock
    /\ clock' = clock + 1
    /\ UNCHANGED << db, writer, pc, loc, hist, overlaps, det >>

\* save_history: the plan generator stores a base plan for a pair.
SaveHistory(u, r) ==
    /\ writer = None
    /\ db.nextBaseId <= MaxBaseId
    /\ db' = InsertBase(db, u, r)
    /\ UNCHANGED << clock, overlaps, det, writer, pc, loc, hist >>

\* the requests that write, which a thread may begin
StartWrite(t) ==
    \E u \in Users, r \in Roles :
        \/ \E e \in Exchanges : StartAddMessage(t, u, r, e)
        \/ StartSave(t, u, r)
        \/ StartClear(t, u, r)
        \/ StartReset(t, u, r)

\* the same requests of the second user
StartWriteOther(t) ==
    \E u \in OtherUsers, r \in Roles :
        \/ \E e \in Exchanges : StartAddMessage(t, u, r, e)
        \/ StartSave(t, u, r)
        \/ StartClear(t, u, r)
        \/ StartReset(t, u, r)

\* the queries
StartRead(t) ==
    \E u \in Users, r \in Roles :
        \/ \E limit \in Limits : StartHistory(t, u, r, limit)
        \/ GetCurrentPlanContext(t, u, r)

\* the chat requests
Chat(t) ==
    \E u \in Users, r \in RequestRoles, raw \in RawMessages :
        \/ RejectChat(t, r, raw)
        \/ StartChat(t, u, r, raw)

\* the steps of a method that do not meet a held write lock
Step(t) ==
    \/ GsSelect(t) \/ GsWrite(t)
    \/ AmMax(t) \/ AmInsert(t) \/ AmCommit(t) \/ AmRollback(t)
    \/ SpUpdate(t) \/ SpCommit(t)
    \/ CsUpdate(t) \/ CsCommit(t) \/ CcUpdate(t)
    \/ RsDelete(t) \/ RsCommit(t)

\* the steps that give up on a held write lock
Busy(t) ==
    \/ GsBusy(t) \/ AmBusy(t) \/ SpBusy(t) \/ CsBusy(t) \/ CcBusy(t) \/ RsBusy(t)

GeneratePlan == \E u \in Users, r \in Roles : SaveHistory(u, r)

\* The writing requests served concurrently by two threads.  The threads are
\* interchangeable: a request that arrives while no other is being served is
\* given to t1.
Arrive(t) ==
    /\ ~Free("t1")
    /\ overlaps < MaxOverlap
    /\ overlaps' = overlaps + 1
    /\ UNCHANGED det
    /\ StartWrite(t)

Next ==
    \/ (StartWrite("t1") /\ UNCHANGED << overlaps, det >>)
    \/ Arrive("t2")
    \/ \E t \in Threads : Step(t) \/ Busy(t)
    \/ Tick

Spec == Init /\ [][Next]_vars

\* All requests, served one after the other (a single thread), and the plan
\* generator.
NextSeq ==
    \/ ((StartWrite("t1") \/ StartRead("t1")) /\ UNCHANGED << overlaps, det >>)
    \/ Step("t1") \/ SmSelect("t1") \/ HRead("t1")
    \/ Tick
    \/ GeneratePlan

SpecSeq == Init /\ [][NextSeq]_vars

Quiescent == \A t \in Threads : Free(t)

\* The chat requests, served one after the other, with the requests that clear
\* or reset the conversation: every turn and every plan version is written by
\* generate_response.
StartClearOrReset(t) ==
    \E u \in Users, r \in Roles : StartClear(t, u, r) \/ StartReset(t, u, r)

NextChat ==
    \/ ((Chat("t1") \/ StartClearOrReset("t1")) /\ UNCHANGED << overlaps, det >>)
    \/ Step("t1") \/ SmSelect("t1") \/ GrModel("t1") \/ GrLookup("t1")
    \/ Tick

SpecChat == Init /\ [][NextChat]_vars

\* The writing requests of two users.  t1 serves, one after the other, the
\* requests of the first user and those requests of the second that store
\* turns and plan versions; t2 serves a request of the second user while t1
\* serves another.
StartStoreOther(t) ==
    \E u \in OtherUsers, r \in Roles :
        \/ \E e \in Exchanges : StartAddMessage(t, u, r, e)
        \/ StartSave(t, u, r)

ArriveOther(t) ==
    /\ ~Free("t1")
    /\ overlaps < MaxOverlap
    /\ overlaps' = overlaps + 1
    /\ UNCHANGED det
    /\ StartWriteOther(t)

NextPairs ==
    \/ ((StartWrite("t1") \/ StartStoreOther("t1")) /\ UNCHANGED << overlaps, det >>)
    \/ ArriveOther("t2")
    \/ \E t \in Threads : Step(t) \/ Busy(t)

SpecPairs == Init /\ [][NextPairs]_vars

\* A long conversation: the pair has a session, begun a second ago, with
\* SummaryThreshold turns.  t1 serves, one after the other, context assemblies,
\* calls of add_message, chat requests (of messages that ask for no plan update)
\* and clear_session; t2 serves a context assembly while t1 serves another
\* request.
InitSummary ==
    /\ db = LongSessionDb(1, "FitnessTrainer")
    /\ clock = 1
    /\ writer = None
    /\ pc = [t \in Threads |-> "idle"]
    /\ loc = [t \in Threads |-> IdleLoc]
    /\ lastSaved = [p \in AllPairs |-> None]
    /\ sinceClear = [p \in AllPairs |-> "none"]
    /\ maxIssued = [p \in AllPairs |-> 0]
    /\ overlaps = 0
    /\ det = NoDetection

LongExchangesLeft ==
    (db.nextTurnId - 1) \div 2 + Running("add_message")
        < SummaryThreshold \div 2 + MaxLongExchanges

StartLong(t) ==
    \E u \in Users, r \in Roles :
        \/ StartContext(t, u, r)
        \/ LongExchangesLeft /\ BeginAddMessage(t, u, r, <<"h1", "a1", FALSE>>)
        \/ LongExchangesLeft /\ BeginChat(t, u, r, [ body |-> "h1", pad |-> 0 ])
        \/ StartClear(t, u, r)

ArriveContext(t) ==
    /\ ~Free("t1")
    /\ overlaps < MaxOverlap
    /\ overlaps' = overlaps + 1
    /\ UNCHANGED det
    /\ \E u \in Users, r \in Roles : StartContext(t, u, r)

StepLong(t) ==
    \/ GsSelect(t) \/ GsWrite(t) \/ GsBusy(t)
    \/ SmSelect(t) \/ SmInvoke(t) \/ SmInsert(t) \/ SmBusy(t) \/ CtxReturn(t)
    \/ AmMax(t) \/ AmInsert(t) \/ AmCommit(t) \/ AmRollback(t)
    \/ CsUpdate(t) \/ CsCommit(t)
    \/ GrModel(t)

NextSummary ==
    \/ (StartLong("t1") /\ UNCHANGED << overlaps, det >>)
    \/ ArriveContext("t2")
    \/ \E t \in Threads : StepLong(t)

SpecSummary == InitSummary /\ [][NextSummary]_vars

\* The long conversation served by one thread: context assemblies, and calls of
\* add_message that add up to MaxCoverageExchanges exchanges.
CoverageExchangesLeft ==
    (db.nextTurnId - 1) \div 2 < SummaryThreshold \div 2 + MaxCoverageExchanges

StartCoverage(t) ==
    \E u \in Users, r \in Roles :
        \/ StartContext(t, u, r)
        \/ CoverageExchangesLeft /\ BeginAddMessage(t, u, r, <<"h1", "a1", FALSE>>)

StepCoverage(t) ==
    \/ GsSelect(t) \/ GsWrite(t)
    \/ SmSelect(t) \/ SmInvoke(t) \/ SmInsert(t) \/ CtxReturn(t)
    \/ AmMax(t) \/ AmInsert(t) \/ AmCommit(t) \/ AmRollback(t)

NextCoverage ==
    \/ (StartCoverage("t1") /\ UNCHANGED << overlaps, det >>)
    \/ StepCoverage("t1")

SpecCoverage == InitSummary /\ [][NextCoverage]_vars

\* The detector on its own, applied once to every input: a user message, an
\* assistant response, and the recent messages of an assembled context.
InitDetect ==
    /\ db = EmptyDb
    /\ clock = 0
    /\ writer = None
    /\ pc = [t \in Threads |-> "idle"]
    /\ loc = [t \in Threads |-> IdleLoc]
    /\ lastSaved = [p \in AllPairs |-> None]
    /\ sinceClear = [p \in AllPairs |-> "none"]
    /\ maxIssued = [p \in AllPairs |-> 0]
    /\ overlaps = 0
    /\ det \in [ msg : { PlainText(b) : b \in BOOLEAN },
                 resp : { x \in Texts : ~x.upd },
                 recent : SeqsUpTo({ PlainText(b) : b \in BOOLEAN }, MaxContext),
                 applied : { FALSE }, result : { FALSE } ]

ApplyDetector ==
    /\ ~det.applied
    /\ det' = [det EXCEPT !.applied = TRUE, !.result =
                   DetectPlanUpdateAdvanced(det.msg, det.resp, det.recent)]
    /\ UNCHANGED << db, clock, writer, pc, loc, hist, overlaps >>

SpecDetect == InitDetect /\ [][ApplyDetector]_vars

\* ----------------------------------------------------------------- claims
CurrentPlans(u, r) == { p \in PairPlans(db, u, r) : p.current }

SavedBy(t) == Free(t) /\ loc[t].op = "save_plan" /\ loc[t].result = TRUE

\* C1 as stated: in every quiescent state a pair that has a saved plan version
\* has exactly one version with is_current = true.
C1_ExactlyOneCurrent ==
    Quiescent =>
        \A u \in Users, r \in Roles :
            PairPlans(db, u, r) # {} => Cardinality(CurrentPlans(u, r)) = 1

\* C1 amended: a pair never has more than one current version; a pair with a
\* saved version has exactly one, unless clear_conversation returned True after
\* the pair's last save, and then it has none.
C1_OneCurrentUnlessCleared ==
    \A u \in Users, r \in Roles :
        /\ Cardinality(CurrentPlans(u, r)) <= 1
        /\ PairPlans(db, u, r) # {} =>
               Cardinality(CurrentPlans(u, r)) =
                   IF sinceClear[<<u, r>>] = "none" THEN 1 ELSE 0

\* a second version saved after clear_conversation had reset the flag of the first
C1_Witness ==
    /\ Quiescent
    /\ \E t \in Threads :
          /\ SavedBy(t)
          /\ loc[t].window # "none"
          /\ Cardinality(PairPlans(db, loc[t].u, loc[t].r)) = 2
          /\ Cardinality(CurrentPlans(loc[t].u, loc[t].r)) = 1

\* C2: two save_updated_plan_with_versioning calls never both stand between
\* their UPDATE and their commit, and once two calls for one pair that
\* overlapped have both returned True, the pair has at most one current version
\* and the two calls assigned different version numbers.
C2_SavesDoNotInterleave ==
    /\ Cardinality({ t \in Threads : pc[t] = "sp_commit" }) <= 1
    /\ \A s, t \in Threads :
          (s # t /\ SavedBy(s) /\ SavedBy(t) /\ loc[s].raced /\ loc[t].raced
               /\ loc[s].u = loc[t].u /\ loc[s].r = loc[t].r)
          => /\ Cardinality(CurrentPlans(loc[t].u, loc[t].r)) <= 1
             /\ loc[s].next # loc[t].next

\* both calls returned True and the second began while the first was running
C2_Witness ==
    /\ SavedBy("t1") /\ SavedBy("t2")
    /\ loc["t1"].raced /\ loc["t2"].raced
    /\ loc["t1"].u = loc["t2"].u /\ loc["t1"].r = loc["t2"].r
    /\ Cardinality(PairPlans(db, loc["t1"].u, loc["t1"].r)) = 2

\* C3: the version numbers stored for a pair are exactly 1..N, N the number of
\* its versions (no gap, no duplicate), also when clear_conversation ran between
\* two saves.
C3_VersionsGapless ==
    \A u \in Users, r \in Roles :
        { p.version : p \in PairPlans(db, u, r) } =
            1 .. Cardinality(PairPlans(db, u, r))

\* version 2 assigned by a save that followed a clear_conversation
C3_Witness ==
    \E t \in Threads :
        SavedBy(t) /\ loc[t].window # "none" /\ loc[t].next = 2

\* C4 as stated: every saved version gets a number greater than every number
\* assigned to the pair before, over the whole history of the pair.
C4_AboveAllEverAssigned ==
    \A t \in Threads : SavedBy(t) => loc[t].next > loc[t].before

\* C4 amended: every saved version gets a number greater than the number of
\* every version the pair holds, that is, of every version assigned since the
\* pair's last reset_to_original_plan.
C4_AboveAllStored ==
    \A t \in Threads : SavedBy(t) => loc[t].next > loc[t].stored

\* a save for a pair that held a version already
C4_Witness ==
    \E t \in Threads : SavedBy(t) /\ loc[t].stored >= 1

\* C5: when add_message calls do not overlap, the order numbers of every
\* session are 1..n in insertion order, and a call that returned False leaves
\* the number it had read to the next call.
C5_OrdersGapless ==
    /\ \A sid \in { x.sid : x \in db.turns } :
          LET S == SessionTurns(db, sid)
          IN  /\ { x.ord : x \in S } = 1 .. Cardinality(S)
              /\ \A x, y \in S : x.id < y.id => x.ord < y.ord
    /\ \A t \in Threads :
          (Free(t) /\ loc[t].op = "add_message" /\ loc[t].result = FALSE)
          => NextOrder(db, loc[t].sid) = loc[t].next

\* a session holding the four turns of two exchanges
C5_Witness ==
    \E sid \in { x.sid : x \in db.turns } : Cardinality(SessionTurns(db, sid)) = 4

\* C6: no two turns of a session carry the same order number, also when
\* add_message calls overlap.
C6_NoDuplicateOrder ==
    \A x, y \in db.turns : (x.sid = y.sid /\ x.ord = y.ord) => x = y

Alternates(rows) ==
    \A i \in 1 .. Len(rows) :
        rows[i].type = IF i % 2 = 1 THEN "human" ELSE "assistant"

\* C7: in every quiescent state the turns of every session, taken by order
\* number, alternate human, assistant, ... and begin with a human turn.
C7_TurnsAlternate ==
    Quiescent =>
        \A sid \in { x.sid : x \in db.turns } :
            Alternates(SortedTurns(SessionTurns(db, sid)))

\* C8: get_conversation_history called after an add_message that returned True,
\* with no clear or reset in between, returns a list whose last element is the
\* saved exchange.
C8_HistoryEndsWithSaved ==
    \A t \in Threads :
        (Free(t) /\ loc[t].op = "history"
             /\ lastSaved[<<loc[t].u, loc[t].r>>] # None)
        => /\ loc[t].result # << >>
           /\ LET e == lastSaved[<<loc[t].u, loc[t].r>>]
              IN  Last(loc[t].result) = [human |-> e[1], ai |-> e[2], isUpdate |-> e[3]]

\* C9: in every quiescent state, clear_conversation called twice leaves the
\* history and the plan context of the pair as clear_conversation called once.
C9_ClearIdempotent ==
    Quiescent =>
        \A u \in Users, r \in Roles :
            LET once  == ClearConversationSeq(db, u, r, clock)
                twice == ClearConversationSeq(once, u, r, clock)
            IN  /\ CurrentPlanContext(once, u, r) = CurrentPlanContext(twice, u, r)
                /\ \A limit \in Limits :
                      GetConversationHistorySeq(once, u, r, limit, clock).result =
                      GetConversationHistorySeq(twice, u, r, limit, clock).result

\* C10: from clear_conversation returning True until the next turn or version is
\* saved for the pair, get_conversation_history returns the empty list and
\* get_current_plan_context the base plan (or no plan) with is_updated = false.
C10_ClearedUntilNextTurn ==
    \A t \in Threads :
        (Free(t) /\ loc[t].u # 0 /\ sinceClear[<<loc[t].u, loc[t].r>>] = "clear")
        => /\ loc[t].op = "history" => loc[t].result = << >>
           /\ loc[t].op = "plan_context" =>
                 /\ loc[t].result.is_updated = FALSE
                 /\ loc[t].result.current_plan \in { None, "base" }

\* C11: the detector answers (userWantsUpdate and responseHasPlanMarkers and
\* isSubstantial and hasStructure) or (recentContextAboutPlans and
\* responseHasPlanMarkers and isSubstantial), where isSubstantial is a response
\* of more than 800 characters and recentContextAboutPlans is an update keyword
\* among the last 4 messages of the context.
C11_DetectorDecision ==
    det.applied =>
        det.result =
            ( \/ (det.msg.upd /\ det.resp.plan /\ det.resp.len > 800 /\ det.resp.struct)
              \/ ( /\ \E i \in 1 .. Len(det.recent) :
                         Len(det.recent) - i < 4 /\ det.recent[i].upd
                    /\ det.resp.plan
                    /\ det.resp.len > 800 ) )

\* a plan update detected through the context alone, in an unstructured response
C11_Witness ==
    /\ det.applied /\ det.result
    /\ ~det.msg.upd
    /\ ~det.resp.struct
    /\ Len(det.recent) = MaxContext

ChatDone(t) == Free(t) /\ loc[t].op = "generate_response"

\* the plan versions inserted since the request of t arrived
NewPlans(t) ==
    { p \in db.plans : \A q \in loc[t].snap.plans : q.id # p.id }

BeforeRequest(t) == [ EmptyDb EXCEPT !.plans = loc[t].snap.plans ]

\* C13: a response classified as a plan update whose turn pair was saved makes
\* exactly one new plan version, numbered one above the previous maximum of the
\* pair, holding the response text and current; a response not classified as
\* one leaves the plan versions as they were.
C13_UpdateMakesOneVersion ==
    \A t \in Threads :
        (ChatDone(t) /\ loc[t].result.success)
        => IF loc[t].f
           THEN loc[t].mem
                => /\ Cardinality(NewPlans(t)) = 1
                   /\ \A p \in NewPlans(t) :
                        /\ p.user = loc[t].u /\ p.role = loc[t].r
                        /\ p.version = MaxVersion(BeforeRequest(t), loc[t].u, loc[t].r) + 1
                        /\ p.plan = loc[t].a
                        /\ p.current
           ELSE db.plans = loc[t].snap.plans

\* C14: every plan version made by generate_response refers to the assistant
\* turn of its own exchange: a turn saved by this request, of type assistant,
\* whose content is the plan text.
C14_VersionKeyedToOwnTurn ==
    \A t \in Threads :
        ChatDone(t)
        => \A p \in NewPlans(t) :
              \E x \in db.turns :
                  /\ x.id = p.conv
                  /\ x.type = "assistant"
                  /\ x.content = p.plan
                  /\ \A y \in loc[t].snap.turns : y.id # x.id

\* the model call of t raised, or returned an empty content
LlmFailed(t) ==
    \/ loc[t].llm.kind = "error"
    \/ loc[t].llm.kind = "content" /\ loc[t].llm.body = "" /\ loc[t].llm.pad = 0

\* C15: when the model call fails or returns an empty content, the request
\* reports success = false and no turn row and no plan version row is added or
\* changed.
C15_FailedCallSavesNoTurnNoPlan ==
    \A t \in Threads :
        (ChatDone(t) /\ LlmFailed(t))
        => /\ loc[t].result.success = FALSE
           /\ db.turns = loc[t].snap.turns
           /\ db.plans = loc[t].snap.plans

\* an empty content returned in a conversation that already has turns and a
\* plan version
C15_Witness ==
    \E t \in Threads :
        /\ ChatDone(t)
        /\ loc[t].llm.kind = "content" /\ LlmFailed(t)
        /\ loc[t].snap.turns # {} /\ loc[t].snap.plans # {}
        /\ loc[t].result.success = FALSE

\* C16: when the model call fails or returns an empty content, nothing at all
\* is persisted: no session row is created or refreshed either.
C16_FailedCallPersistsNothing ==
    \A t \in Threads :
        (ChatDone(t) /\ LlmFailed(t))
        => /\ db.sessions = loc[t].snap.sessions
           /\ db.turns = loc[t].snap.turns
           /\ db.plans = loc[t].snap.plans

\* C17: a chat request with an unrecognized role, with a message that is empty
\* or only whitespace, or with a message longer than 2000 characters (measured,
\* as the endpoint does, after stripping) is rejected before any side effect:
\* it is answered with a failure, the model is not called and no table changes.
C17_InvalidRequestRejected ==
    \A t \in Threads :
        ( /\ Free(t)
          /\ loc[t].op \in {"generate_response", "rejected_chat"}
          /\ \/ loc[t].req.role \notin
                  {"HealthSummary", "FitnessTrainer", "Nutritionist", "HealthAdvisor"}
             \/ loc[t].req.raw.body = ""
             \/ TextOf(loc[t].req.raw.body).len > 2000 )
        => /\ loc[t].op = "rejected_chat"
           /\ loc[t].result.success = FALSE
           /\ loc[t].llm = NoOutcome
           /\ db.sessions = loc[t].snap.sessions
           /\ db.turns = loc[t].snap.turns
           /\ db.plans = loc[t].snap.plans

\* a message of more than 2000 characters for a known role, rejected while the
\* tables hold an earlier exchange
C17_Witness ==
    \E t \in Threads :
        /\ Free(t) /\ loc[t].op = "rejected_chat"
        /\ loc[t].req.role = "FitnessTrainer"
        /\ TextOf(loc[t].req.raw.body).len > 2000
        /\ db.turns # {}

\* C18: when the model call succeeds with a non-empty content and add_message
\* returns false, the request still reports success = true with the response.
C18_UnsavedTurnStillSucceeds ==
    \A t \in Threads :
        (ChatDone(t) /\ loc[t].llm.kind = "content" /\ ~LlmFailed(t) /\ ~loc[t].mem)
        => /\ loc[t].result.success = TRUE
           /\ loc[t].result.response = loc[t].llm.body

\* a plan text returned by the model whose turn pair was not saved
C18_Witness ==
    \E t \in Threads :
        /\ ChatDone(t)
        /\ loc[t].llm.kind = "content" /\ loc[t].llm.body = "a2"
        /\ ~loc[t].mem
        /\ \A x \in db.turns : x.content # "a2"
        /\ loc[t].result.success = TRUE

\* a cleared session stays cleared
ClearedStaysCleared ==
    \A s \in db.sessions :
        s.status = "cleared"
        => \E s2 \in db'.sessions : s2.sid = s.sid /\ s2.status = "cleared"

\* the turn pair that add_message has just saved for t lies in an active
\* session of its pair
SavedInActiveSession(t) ==
    \E s \in db.sessions :
        /\ s.sid = loc[t].sid /\ s.status = "active"
        /\ s.user = loc[t].u /\ s.role = loc[t].r
        /\ \E x \in db.turns : x.sid = s.sid /\ x.id = db.nextTurnId - 1

\* every turn pair saved by add_message lies in an active session
NextTurnInActiveSession ==
    \A t \in Threads :
        (Free(t) /\ loc[t].op = "add_message" /\ loc[t].result = TRUE)
        => SavedInActiveSession(t)

\* C19: a session goes from absent to active to cleared and never back to
\* active; the next turn of the same pair is stored in a newly created active
\* session.
C19_SessionLifecycle ==
    [][ClearedStaysCleared]_vars /\ []NextTurnInActiveSession

SessionIds(d) == { s.sid : s \in d.sessions } \cup { x.sid : x \in d.turns }

\* C20: session identifiers are collision-free and never reused, including when
\* the previous session was created and cleared within the same clock second:
\* for a pair without active session, the identifier get_session_id returns is
\* none used before, and after a clear within the same second the next
\* get_session_id returns yet another one.
C20_SessionIdsNeverReused ==
    \A p \in Pairs :
        (Quiescent /\ ActiveCandidates(db, p[1], p[2]) = {})
        => LET g1 == GetSessionIdSeq(db, p[1], p[2], clock)
               d1 == ClearSessionTxn(g1.db, g1.sid)
               g2 == GetSessionIdSeq(d1, p[1], p[2], clock)
           IN  /\ g1.sid \notin SessionIds(db)
               /\ g2.sid # g1.sid
               /\ g2.sid \notin SessionIds(d1)

\* get_session_id of thread t returns in this step; loc'[t].sid is its answer
GsReturns(t) == pc[t] = "gs_wr" /\ pc'[t] # "gs_wr"

ActiveSessions(d, u, r) ==
    { s \in d.sessions : s.user = u /\ s.role = r /\ s.status = "active" }

\* the session rows this step has created
CreatedSessions == { s \in db'.sessions : \A o \in db.sessions : o.sid # s.sid }

\* what C21 asks of a call of get_session_id by t that returns in this step
ReturnsActiveSession(t) ==
    LET act == ActiveSessions(db, loc[t].u, loc[t].r)
    IN  /\ act # {} => /\ loc'[t].sid \in { s.sid : s \in act }
                       /\ CreatedSessions = {}
        /\ \A s \in CreatedSessions :
              /\ act = {}
              /\ s.sid = loc'[t].sid
              /\ s.user = loc[t].u /\ s.role = loc[t].r
              /\ s.status = "active" /\ s.count = 0

\* C21: get_session_id returns the identifier of an active session of the pair
\* whenever the pair has one, and then creates no session row; it creates a
\* session (active, message count 0) only when the pair has no active session.
C21_ReturnsActiveSession ==
    [][\A t \in Threads : GsReturns(t) => ReturnsActiveSession(t)]_vars

\* C22: a storage failure inside get_session_id is propagated to the caller;
\* get_session_id never answers a failed lookup or a failed insert with a value
\* that its caller uses as a session identifier: no caller holds, and no turn
\* is stored under, the identifier built in the except branch.
C22_FailureNotAnsweredWithIdentifier ==
    /\ \A t \in Threads : loc[t].sid.kind # "fallback"
    /\ \A x \in db.turns : x.sid.kind # "fallback"

\* C23: get_current_plan_context returns the version flagged current, with
\* is_updated = true and its version number, if the pair has one, and that
\* version has the highest version number of the pair; otherwise the latest
\* base plan with is_updated = false and version = 1; otherwise current_plan =
\* None.
C23_CurrentPlanContext ==
    \A t \in Threads :
        (Free(t) /\ loc[t].op = "plan_context")
        => LET mine == { p \in loc[t].snap.plans :
                             p.user = loc[t].u /\ p.role = loc[t].r }
               cur  == { p \in mine : p.current }
               base == { b \in loc[t].snap.base :
                             b.user = loc[t].u /\ b.role = loc[t].r }
               res  == loc[t].result
           IN  IF cur # {}
               THEN \E p \in cur :
                       /\ res.current_plan = p.plan
                       /\ res.is_updated = TRUE
                       /\ res.version = p.version
                       /\ \A q \in mine : q.version <= p.version
               ELSE IF base # {}
               THEN \E b \in base :
                       /\ \A c \in base : c.id <= b.id
                       /\ res.current_plan = b.rec
                       /\ res.is_updated = FALSE
                       /\ res.version = 1
               ELSE res.current_plan = None /\ res.is_updated = FALSE

\* the second version of a pair that also has a base plan is the one returned
C23_Witness ==
    \E t \in Threads :
        /\ Free(t) /\ loc[t].op = "plan_context"
        /\ loc[t].snap.base # {}
        /\ Cardinality(loc[t].snap.plans) = 2
        /\ loc[t].result.is_updated = TRUE
        /\ loc[t].result.version = 2

\* the detector is evaluated for t on the inputs of its first evaluation
SameDetectorInputs(t) ==
    /\ det.applied
    /\ det.msg = TextOf(loc[t].h)
    /\ det.resp = TextOf(loc[t].a)
    /\ det.recent = [ i \in 1 .. Len(loc[t].recent) |-> TextOf(loc[t].recent[i]) ]

C30_ExtractionFailureSwallowed ==
    \A t \in Threads :
        (Free(t) /\ loc[t].op = "add_message" /\ loc[t].extract = "locked")
        => /\ loc[t].result = TRUE
           /\ \E x, y \in db.turns :
                 /\ x.sid = loc[t].sid /\ y.sid = loc[t].sid
                 /\ x.type = "human" /\ x.ord = loc[t].next
                 /\ y.type = "assistant" /\ y.ord = loc[t].next + 1
                 /\ y.id = db.nextTurnId - 1 /\ x.id = db.nextTurnId - 2

\* the message names the plan, the pair has a base plan, and the INSERT of the
\* reference met the write lock of add_message itself
C30_Witness ==
    \E t \in Threads :
        /\ Free(t) /\ loc[t].op = "add_message" /\ loc[t].extract = "locked"
        /\ db.base # {} /\ db.refs = {}
        /\ loc[t].result = TRUE

\* the rows of pair q in the tables of d
PairRows(d, q) ==
    [ sessions  |-> { s \in d.sessions : s.user = q[1] /\ s.role = q[2] },
      turns     |-> { x \in d.turns : x.user = q[1] /\ x.role = q[2] },
      summaries |-> { m \in d.summaries : m.user = q[1] /\ m.role = q[2] },
      plans     |-> { p \in d.plans : p.user = q[1] /\ p.role = q[2] } ]

\* thread t takes this step
Acts(t) == pc'[t] # pc[t] \/ loc'[t] # loc[t]

\* the pair of the request that t serves in this step
ActingPair(t) ==
    IF Free(t) THEN << loc'[t].u, loc'[t].r >> ELSE << loc[t].u, loc[t].r >>

\* C24: requests of different pairs are independent: under any interleaving,
\* no step of an operation executed for a pair changes the sessions, turns,
\* summaries or plan versions of another pair.
C24_PairsIndependent ==
    [][\A t \in Threads :
          Acts(t) => \A q \in AllPairs :
                        q # ActingPair(t) => PairRows(db', q) = PairRows(db, q)]_vars

\* reset_to_original_plan has returned for the first user while the second has
\* a session, turns and a current plan version
C24_Witness ==
    \E t \in Threads :
        /\ Free(t) /\ loc[t].op = "reset" /\ loc[t].u = 1 /\ loc[t].result = TRUE
        /\ \E q \in AllPairs :
              /\ q[1] # 1
              /\ PairRows(db, q).turns # {}
              /\ \E p \in PairRows(db, q).plans : p.current
              /\ \E s \in PairRows(db, q).sessions : s.status = "active"

\* get_conversation_context has returned to thread t
ContextDone(t) == pc[t] = "done" /\ loc[t].op = "context" /\ loc[t].sm.checked

\* C26: _get_or_create_session_summary returns the stored active summary of the
\* session if there is one; else it invokes the summarizer only if the session
\* has strictly more than 20 turns; with 20 turns or fewer (and no stored
\* summary) it returns empty, stores nothing and calls no model.
C26_SummaryOnlyWhenLong ==
    \A t \in Threads :
        ContextDone(t) =>
            LET m == loc[t].sm
            IN  /\ m.had # None =>
                       /\ loc[t].result.summary = m.had
                       /\ ~m.invoked /\ ~m.stored
                /\ m.invoked => m.had = None /\ m.count > 20
                /\ (m.had = None /\ m.count <= 20) =>
                       /\ loc[t].result.summary = ""
                       /\ ~m.invoked /\ ~m.stored

\* a context assembly of a session of more than 20 turns without a summary has
\* invoked the summarizer and stored its summary
C26_Witness ==
    \E t \in Threads :
        /\ ContextDone(t)
        /\ loc[t].sm.had = None /\ loc[t].sm.count > 20
        /\ loc[t].sm.invoked /\ loc[t].sm.stored
        /\ loc[t].result.summary = "s1"

\* a context assembly of a session of exactly 20 turns has returned no summary
SummaryDeclinedAtThreshold ==
    \E t \in Threads :
        /\ ContextDone(t)
        /\ loc[t].sm.count = 20 /\ loc[t].sm.had = None
        /\ loc[t].result.summary = ""

\* the active summaries of a session
SessionSummaries(d, sid) == { m \in d.summaries : m.sid = sid /\ m.active }

\* C29: a session never has more than one active summary, also when two context
\* assemblies of the session reach the summarizer concurrently.
C29_OneActiveSummary ==
    \A s \in db.sessions : Cardinality(SessionSummaries(db, s.sid)) <= 1

\* the session is still active, and no request that clears it is being served
NotCleared(d, sid) ==
    /\ \E x \in d.sessions : x.sid = sid /\ x.status = "active"
    /\ Running("clear_conversation") = 0

\* C27: once a summary is stored for a session, every later context assembly in
\* that session returns the stored summary and does not invoke the summarizer
\* again, however many turns have been added, as long as the session has not
\* been cleared.
C27_StoredSummaryReturned ==
    \A t \in Threads :
        LET sid == loc[t].result.session_id
        IN  (/\ ContextDone(t)
             /\ sid \in loc[t].sm.before
             /\ NotCleared(db, sid))
            => /\ loc[t].result.summary \in { m.content : m \in SessionSummaries(db, sid) }
               /\ ~loc[t].sm.invoked

\* generate_response has returned to thread t
ResponseDone(t) == pc[t] = "done" /\ loc[t].op = "generate_response"

\* C28: a failure of the summarization call does not fail the caller.  The
\* context assembly in which it happens stores no summary row and returns the
\* summary '' with the recent window of its session; generate_response, when it
\* happens in one of its assemblies, goes on to call the main model, whose
\* outcome alone decides its success.
C28_SummarizerFailureTolerated ==
    \A t \in Threads :
        /\ (ContextDone(t) /\ loc[t].sm.failed) =>
               /\ loc[t].result.summary = ""
               /\ ~loc[t].sm.stored
               /\ (\A o \in Threads \ {t} : pc[o] = "idle") =>
                      loc[t].result.recent_messages =
                          RecentMessages(db, loc[t].result.session_id)
        /\ (ResponseDone(t) /\ loc[t].sm.failed) =>
               /\ loc[t].llm # NoOutcome
               /\ loc[t].result.success =
                      ~(loc[t].llm.kind = "error" \/ EmptyContent(loc[t].llm))

\* a chat request whose summarization call failed has been answered
C28_Witness ==
    \E t \in Threads :
        /\ ResponseDone(t)
        /\ loc[t].sm.failed
        /\ loc[t].result.success

\* a context assembly whose summarization call failed has returned the recent
\* window of a long session
ContextAfterFailedSummary ==
    \E t \in Threads :
        /\ ContextDone(t)
        /\ loc[t].sm.failed
        /\ Len(loc[t].result.recent_messages) = 2 * WindowSize

\* the stored human turns whose message holds a reference keyword
AnaphoricTurns == { x \in db.turns : x.type = "human" /\ KeywordsOf(x.content).ref }

\* C31: once add_message has saved a human turn whose message holds an
\* anaphoric term, the store holds a 'previous_message' reference of confidence
\* 0.6 without target for that turn; and if the message holds a plan term and
\* the pair has a base plan, also a 'plan' reference of confidence 0.8 to the
\* latest base plan.
C31_ReferencesStored ==
    \A x \in AnaphoricTurns :
        /\ \E f \in db.refs :
              /\ f.conv = x.id /\ f.type = "previous_message"
              /\ f.conf = 6 /\ f.ref = 0
        /\ (KeywordsOf(x.content).pkw /\ PairBase(db, x.user, x.role) # {}) =>
              \E f \in db.refs : f.conv = x.id /\ f.type = "plan" /\ f.conf = 8

\* get_buffer_window_memory, called by get_conversation_context of thread t,
\* reads the recent messages in this step; loc'[t].recent is what it read
WindowRead(t) ==
    /\ loc[t].op = "context" /\ loc[t].calls = 2
    /\ pc[t] = "gs_wr" /\ pc'[t] # "gs_wr"

\* the number of turns of T that come after x by order number
LaterTurns(T, x) ==
    Cardinality({ y \in T : y.ord > x.ord \/ (y.ord = x.ord /\ y.id > x.id) })

\* rec holds the contents of the min(20, n) turns of session sid with the
\* highest order numbers, in increasing order
IsRecentWindow(rec, d, sid) ==
    LET T == SessionTurns(d, sid)
        n == Cardinality(T)
        k == IF n < 20 THEN n ELSE 20
    IN  /\ Len(rec) = k
        /\ \A i \in 1 .. k :
              \E x \in T : LaterTurns(T, x) = k - i /\ x.content = rec[i]

\* C32: the recent_messages of get_conversation_context are the min(20, n) turns
\* with the highest order numbers of the session the context is assembled for
\* (its session_id), in increasing order of their order numbers.
C32_RecentWindow ==
    [][\A t \in Threads :
          WindowRead(t) => IsRecentWindow(loc'[t].recent, db', loc'[t].sid0)]_vars

\* a language-model call of thread t is in progress: the main model call of
\* generate_response or the summarization call of _create_conversation_summary
InModelCall(t) == pc[t] \in { "gr_llm", "sm_llm" }

\* thread o makes or gives up, in this step, the first write of a transaction
WriteAttempt(o) ==
    /\ pc[o] \in { "gs_wr", "sm_ins", "am_ins", "cs_upd" }
    /\ pc'[o] # pc[o]

\* C33: no write transaction or lock on the store is held by a request while
\* its language-model call is in progress, and the call never blocks a write of
\* another request: a write that another request attempts meanwhile finds the
\* write lock free.
C33_NoLockDuringModelCall ==
    /\ [](\A t \in Threads : InModelCall(t) => writer # t)
    /\ [][\A t \in Threads, o \in Threads :
              (t # o /\ InModelCall(t) /\ WriteAttempt(o)) => writer = None]_vars

\* while the summarization call of one request is in progress, another request
\* is about to insert its summary and the write lock is free
C33_Witness ==
    \E t \in Threads, o \in Threads :
        /\ t # o
        /\ InModelCall(t)
        /\ pc[o] = "sm_ins"
        /\ writer = None

\* C34: every turn belongs to an existing session: each row of conversations
\* carries a session identifier for which conversation_sessions has a row, also
\* when get_session_id met a storage error before the turn was saved.
C34_TurnsHaveSession ==
    \A x \in db.turns : \E s \in db.sessions : s.sid = x.sid

\* C35: a pair never has more than one session of status 'active', also when
\* two requests of the pair call get_session_id concurrently while it has none.
C35_OneActiveSession ==
    \A u \in Users, r \in Roles : Cardinality(ActiveSessions(db, u, r)) <= 1

\* the message_count of every active session is the number of its turns, and even
CountMatchesTurns ==
    \A s \in db.sessions :
        s.status = "active" =>
            /\ s.count = Cardinality(SessionTurns(db, s.sid))
            /\ s.count % 2 = 0

\* add_message of thread t returns False in this step
AddMessageFails(t) ==
    /\ loc[t].op = "add_message" /\ pc[t] \in { "am_ins", "am_commit" }
    /\ pc'[t] = "done" /\ loc'[t].result = FALSE

\* C36: the message_count of every active session equals the number of turn
\* rows of the session, and is even, whatever add_message, clear_session and
\* get_session_id have done; an add_message that fails changes neither the
\* turns nor the counts.
C36_CountMatchesTurns ==
    /\ []CountMatchesTurns
    /\ [][\A t \in Threads :
              AddMessageFails(t) =>
                  /\ db'.turns = db.turns
                  /\ \A s \in db.sessions : \E x \in db'.sessions :
                         x.sid = s.sid /\ x.count = s.count]_vars

\* an add_message has failed while the pair has an active session with turns
C36_Witness ==
    \E t \in Threads, s \in db.sessions :
        /\ Free(t) /\ loc[t].op = "add_message" /\ loc[t].result = FALSE
        /\ s.status = "active" /\ s.count = 2
        /\ Cardinality(SessionTurns(db, s.sid)) = 2

\* C37: generate_response returns contains_plan_update = true only if, during
\* the request, a new current plan version holding the returned response was
\* stored and the assistant turn of the exchange was saved with its plan-update
\* flag set.
C37_ReportedUpdateIsStored ==
    \A t \in Threads :
        (ChatDone(t) /\ loc[t].result.contains_plan_update)
        => /\ \E p \in NewPlans(t) :
                 /\ p.user = loc[t].u /\ p.role = loc[t].r
                 /\ p.plan = loc[t].result.response /\ p.current
           /\ \E x \in db.turns :
                 /\ \A y \in loc[t].snap.turns : y.id # x.id
                 /\ x.type = "assistant" /\ x.upd
                 /\ x.content = loc[t].result.response

\* C38: in every quiescent state a session of status 'cleared' has no turns and
\* no summaries: no turn is inserted under the identifier of a cleared session,
\* also when clear_session runs between the get_session_id of add_message and
\* its INSERTs.
C38_ClearedSessionIsEmpty ==
    Quiescent =>
        \A s \in db.sessions :
            s.status = "cleared" =>
                /\ SessionTurns(db, s.sid) = {}
                /\ \A m \in db.summaries : m.sid # s.sid

\* thread t takes, in this step, a step of a query it is serving:
\* get_conversation_history, or the context assembly of the current-plans query
QueryStep(t) ==
    /\ loc[t].op \in { "history", "context" }
    /\ pc[t] \notin { "idle", "done" }
    /\ pc'[t] # pc[t]

\* C39: the queries are read-only: their steps leave the sessions, the turns,
\* the context references, the summaries and the plan versions unchanged, and
\* none of them invokes the language model.
C39_QueriesReadOnly ==
    [][\A t \in Threads :
          QueryStep(t) =>
              /\ db'.sessions = db.sessions
              /\ db'.turns = db.turns
              /\ db'.refs = db.refs
              /\ db'.summaries = db.summaries
              /\ db'.plans = db.plans
              /\ pc'[t] # "sm_llm"]_vars

\* turn x of T is among the last n turns of T by order number
AmongLast(T, x, n) == LaterTurns(T, x) < n

\* C40: whenever a context is assembled with an active summary, it covers the
\* whole session: every turn of the session is among its recent_messages or
\* among the turns from which the summary was generated, however many turns
\* were added after the summary was created.
C40_ContextCoversSession ==
    \A t \in Threads :
        (ContextDone(t) /\ SessionSummaries(db, loc[t].result.session_id) # {})
        => LET sid == loc[t].result.session_id
               T   == SessionTurns(db, sid)
           IN  \A x \in T :
                   \/ AmongLast(T, x, Len(loc[t].result.recent_messages))
                   \/ \E m \in SessionSummaries(db, sid) :
                          /\ m.content = loc[t].result.summary
                          /\ x.id \in m.covers

====
